---- MODULE Spec2Model ----
(***************************************************************************)
(* MaterialManager and VariantManager of cura/Machines: the two lookup     *)
(* tables built by initialize() from the ContainerRegistry's metadata and  *)
(* the queries served from them, with lazy loading of the containers.      *)
(*                                                                         *)
(* Python values are modelled by type: a dict is a function whose DOMAIN   *)
(* is its key set, a metadata dict is a record, an InstanceContainer is    *)
(* the record [container |-> id], and None is NoContainer / NoMetadata /   *)
(* NoneName according to the type of the variable that holds it.           *)
(* Diameters (floats) are counted in hundredths of a millimetre.           *)
(***************************************************************************)
EXTENDS Integers, Sequences, FiniteSets, TLC

(* ------------------------------ bounds -------------------------------- *)

\* longest list findContainersMetadata(type = "material") returns to a
\* manager that goes on to serve getMaterial and getMaterialByGUID
MaxRecords == 2
\* longest list findContainersMetadata(type = "material") returns to a
\* manager observed through initialize() and getAvailableMaterials() alone
MaxBuildRecords == 3
\* longest list findContainersMetadata(type = "variant") returns
MaxVariants == 2
\* longest list findContainersMetadata(type = "material") returns to a
\* manager that serves two threads
MaxConcurrentRecords == 1
\* longest list findContainersMetadata(type = "material") returns to a
\* manager with materials of both approximate diameters
MaxDiameterRecords == 1

(* ----------------------------- None values ---------------------------- *)

NoContainer == [container |-> "None"]
NoMetadata == [id |-> "None"]
NoneName == "None"
EmptyDict == <<>>
NoNode == <<"none", "", "", "", "">>

(* -------------------- the registry's metadata universe ---------------- *)

EmptyMaterialId == "empty_material"
DefaultMachineDefinitionId == "fdmprinter"
ExcludeVariantIdList == {"empty_variant"}

\* the id of the record at position i of the material list (ids are unique)
MaterialIdAt == <<"generic_pla", "generic_abs", "generic_cpe", "generic_nylon", "generic_pva">>
VariantIdAt == <<"ultimaker3_aa04", "ultimaker3_bb08", "ultimaker3_glass", "ultimaker3_aa08">>
Guids == {"G1", "G2"}
MachineIds == {"fdmprinter", "ultimaker3"}
VariantNames == {"AA 0.4"}
ApproximateDiameters == {"3"}

\* base_file of the record at position i: its own id (a root material) or
\* the id of another record
BaseFilesAt(i) == {MaterialIdAt[i], MaterialIdAt[IF i = 1 THEN 2 ELSE 1]}

\* the metadata dicts position i may hold; "variant_name" is an optional key
MaterialRecordsAt(i) ==
    {[id |-> EmptyMaterialId]}
    \cup {[id |-> MaterialIdAt[i], GUID |-> g, base_file |-> b,
           definition |-> d, approximate_diameter |-> a] :
            g \in Guids, b \in BaseFilesAt(i), d \in MachineIds,
            a \in ApproximateDiameters}
    \cup {[id |-> MaterialIdAt[i], GUID |-> g, base_file |-> b,
           definition |-> d, approximate_diameter |-> a, variant_name |-> v] :
            g \in Guids, b \in BaseFilesAt(i), d \in MachineIds \ {DefaultMachineDefinitionId},
            a \in ApproximateDiameters, v \in VariantNames}

RECURSIVE MaterialListsOfLen(_)
MaterialListsOfLen(n) ==
    IF n = 0 THEN {<<>>}
    ELSE {Append(s, r) : s \in MaterialListsOfLen(n - 1), r \in MaterialRecordsAt(n)}

\* the lists of at most max records findContainersMetadata(type = "material")
\* may return
MaterialLists(max) ==
    {s \in UNION {MaterialListsOfLen(n) : n \in 0..max} :
        Cardinality({i \in 1..Len(s) : s[i].id = EmptyMaterialId}) <= 1}

VariantRecordsAt(i) ==
    {[id |-> "empty_variant", name |-> "empty", definition |-> "fdmprinter",
      hardware_type |-> "nozzle"]}
    \cup {[id |-> VariantIdAt[i], name |-> n, definition |-> d, hardware_type |-> t] :
            n \in {"AA 0.4", "Glass"}, d \in {"ultimaker3"},
            t \in {"nozzle", "buildplate"}}

RECURSIVE VariantListsOfLen(_)
VariantListsOfLen(n) ==
    IF n = 0 THEN {<<>>}
    ELSE {Append(s, r) : s \in VariantListsOfLen(n - 1), r \in VariantRecordsAt(n)}

VariantLists ==
    {s \in UNION {VariantListsOfLen(n) : n \in 0..MaxVariants} :
        Cardinality({i \in 1..Len(s) : s[i].id \in ExcludeVariantIdList}) <= 1}

(* ------------------------------- helpers ------------------------------ *)

\* d[key] = value on a dict
Put(d, key, value) ==
    [k \in (DOMAIN d) \cup {key} |-> IF k = key THEN value ELSE d[k]]

\* MaterialNode(metadata): container None, both maps empty
MaterialNode(metadata) ==
    [metadata |-> metadata, container |-> NoContainer,
     material_map |-> EmptyDict, children_map |-> EmptyDict]

\* material_metadata.get("variant_name"), None as NoneName
GetVariantName(material_metadata) ==
    IF "variant_name" \in DOMAIN material_metadata
    THEN material_metadata.variant_name
    ELSE NoneName

(* -------------------- MaterialManager.initialize ---------------------- *)

\* BuildGuidMap without the test "guid not in the map": the last root material
\* with a GUID replaces the earlier ones
RECURSIVE BuildGuidMapLastWins(_, _, _)
BuildGuidMapLastWins(material_metadata_list, i, guid_map) ==
    IF i > Len(material_metadata_list) THEN guid_map
    ELSE LET material_metadata == material_metadata_list[i]
             material_id == material_metadata.id
         IN  IF material_id = EmptyMaterialId
             THEN BuildGuidMapLastWins(material_metadata_list, i + 1, guid_map)
             ELSE IF material_id = material_metadata.base_file
                  THEN BuildGuidMapLastWins(material_metadata_list, i + 1,
                           Put(guid_map, material_metadata.GUID,
                               MaterialNode(material_metadata)))
                  ELSE BuildGuidMapLastWins(material_metadata_list, i + 1, guid_map)

\* Table #1, the loop over material_metadata_list from position i on:
\* GUID -> node of the first root material (id = base_file) with that GUID
RECURSIVE BuildGuidMap(_, _, _)
BuildGuidMap(material_metadata_list, i, guid_map) ==
    IF i > Len(material_metadata_list) THEN guid_map
    ELSE LET material_metadata == material_metadata_list[i]
             material_id == material_metadata.id
         IN  IF material_id = EmptyMaterialId
             THEN BuildGuidMap(material_metadata_list, i + 1, guid_map)
             ELSE IF material_id = material_metadata.base_file
                     /\ material_metadata.GUID \notin DOMAIN guid_map
                  THEN BuildGuidMap(material_metadata_list, i + 1,
                           Put(guid_map, material_metadata.GUID,
                               MaterialNode(material_metadata)))
                  ELSE BuildGuidMap(material_metadata_list, i + 1, guid_map)

\* RootMaterialId taking the record's own id for its root material's
RootMaterialIdOwnId(guid_map, material_metadata) == material_metadata.id

\* the key a record's leaf is stored under: the id of the root material of its GUID
RootMaterialId(guid_map, material_metadata) ==
    guid_map[material_metadata.GUID].metadata.id

\* InsertMaterial with the duplicate check left out: the later variant-specific
\* record replaces the leaf
InsertMaterialOverwriting(tree, guid_map, material_metadata) ==
    LET root_material_id == RootMaterialId(guid_map, material_metadata)
        definition == material_metadata.definition
        approximate_diameter == material_metadata.approximate_diameter
        bucket == IF approximate_diameter \in DOMAIN tree THEN tree[approximate_diameter]
                  ELSE EmptyDict
        machine_node == IF definition \in DOMAIN bucket THEN bucket[definition]
                        ELSE MaterialNode(NoMetadata)
        variant_name == GetVariantName(material_metadata)
        variant_node == IF variant_name \in DOMAIN machine_node.children_map
                        THEN machine_node.children_map[variant_name]
                        ELSE MaterialNode(NoMetadata)
        leaf == MaterialNode(material_metadata)
        node == IF variant_name = NoneName \/ variant_name = ""
                THEN [machine_node EXCEPT !.material_map = Put(@, root_material_id, leaf)]
                ELSE [machine_node EXCEPT !.children_map =
                        Put(@, variant_name,
                            [variant_node EXCEPT !.material_map =
                                Put(@, root_material_id, leaf)])]
    IN  [tree |-> Put(tree, approximate_diameter, Put(bucket, definition, node)),
         error |-> "none"]

\* one round of the Table #2 loop for a record that is not the empty material
\* and whose GUID has a root: the bucket and the machine node are created when
\* missing, a machine-level leaf is assigned, a variant leaf is added or is a
\* duplicate
InsertMaterial(tree, guid_map, material_metadata) ==
    LET root_material_id == RootMaterialId(guid_map, material_metadata)
        definition == material_metadata.definition
        approximate_diameter == material_metadata.approximate_diameter
        tree1 == IF approximate_diameter \notin DOMAIN tree
                 THEN Put(tree, approximate_diameter, EmptyDict)
                 ELSE tree
        bucket1 == tree1[approximate_diameter]
        bucket2 == IF definition \notin DOMAIN bucket1
                   THEN Put(bucket1, definition, MaterialNode(NoMetadata))
                   ELSE bucket1
        machine_node == bucket2[definition]
        variant_name == GetVariantName(material_metadata)
        WithMachine(node) == Put(tree1, approximate_diameter, Put(bucket2, definition, node))
    IN  IF variant_name = NoneName \/ variant_name = ""
        THEN [tree |-> WithMachine(
                    [machine_node EXCEPT !.material_map =
                        Put(@, root_material_id, MaterialNode(material_metadata))]),
              error |-> "none"]
        ELSE LET children1 == IF variant_name \notin DOMAIN machine_node.children_map
                              THEN Put(machine_node.children_map, variant_name,
                                       MaterialNode(NoMetadata))
                              ELSE machine_node.children_map
                 variant_node == children1[variant_name]
             IN  IF root_material_id \notin DOMAIN variant_node.material_map
                 THEN [tree |-> WithMachine(
                            [machine_node EXCEPT !.children_map =
                                Put(children1, variant_name,
                                    [variant_node EXCEPT !.material_map =
                                        Put(@, root_material_id,
                                            MaterialNode(material_metadata))])]),
                       error |-> "none"]
                 ELSE [tree |-> WithMachine([machine_node EXCEPT !.children_map = children1]),
                       error |-> "RuntimeError"]

\* BuildTree passing over a record whose GUID has no root material instead of
\* raising for it
RECURSIVE BuildTreeSkipping(_, _, _, _)
BuildTreeSkipping(material_metadata_list, i, guid_map, tree) ==
    IF i > Len(material_metadata_list) THEN [tree |-> tree, error |-> "none"]
    ELSE LET material_metadata == material_metadata_list[i]
         IN  IF material_metadata.id = EmptyMaterialId
             THEN BuildTreeSkipping(material_metadata_list, i + 1, guid_map, tree)
             ELSE IF material_metadata.GUID \notin DOMAIN guid_map
                  THEN BuildTreeSkipping(material_metadata_list, i + 1, guid_map, tree)
                  ELSE LET r == InsertMaterial(tree, guid_map, material_metadata)
                       IN  IF r.error # "none" THEN r
                           ELSE BuildTreeSkipping(material_metadata_list, i + 1, guid_map,
                                                  r.tree)

\* Table #2, the loop from position i on; it stops at the first exception:
\* KeyError for a GUID without a root material, RuntimeError for a duplicate
RECURSIVE BuildTree(_, _, _, _)
BuildTree(material_metadata_list, i, guid_map, tree) ==
    IF i > Len(material_metadata_list) THEN [tree |-> tree, error |-> "none"]
    ELSE LET material_metadata == material_metadata_list[i]
         IN  IF material_metadata.id = EmptyMaterialId
             THEN BuildTree(material_metadata_list, i + 1, guid_map, tree)
             ELSE IF material_metadata.GUID \notin DOMAIN guid_map
                  THEN [tree |-> tree, error |-> "KeyError"]
                  ELSE LET r == InsertMaterial(tree, guid_map, material_metadata)
                       IN  IF r.error # "none" THEN r
                           ELSE BuildTree(material_metadata_list, i + 1, guid_map, r.tree)

(* --------------------- VariantManager.initialize ---------------------- *)

\* BuildVariantMap with the table keyed by hardware_type as well: a name the
\* machine's dict holds is a duplicate only for the same hardware_type, the
\* entry of another hardware_type is replaced
RECURSIVE BuildVariantMapByType(_, _, _)
BuildVariantMapByType(variant_metadata_list, i, variant_map) ==
    IF i > Len(variant_metadata_list) THEN [map |-> variant_map, error |-> "none"]
    ELSE LET variant_metadata == variant_metadata_list[i]
             variant_name == variant_metadata.name
             variant_definition == variant_metadata.definition
             map1 == IF variant_definition \notin DOMAIN variant_map
                     THEN Put(variant_map, variant_definition, EmptyDict)
                     ELSE variant_map
             variant_dict == map1[variant_definition]
         IN  IF variant_metadata.id \in ExcludeVariantIdList
             THEN BuildVariantMapByType(variant_metadata_list, i + 1, variant_map)
             ELSE IF /\ variant_name \in DOMAIN variant_dict
                     /\ variant_dict[variant_name].metadata.hardware_type
                            = variant_metadata.hardware_type
                  THEN [map |-> map1, error |-> "RuntimeError"]
                  ELSE BuildVariantMapByType(variant_metadata_list, i + 1,
                           Put(map1, variant_definition,
                               Put(variant_dict, variant_name,
                                   [metadata |-> variant_metadata,
                                    container |-> NoContainer])))

\* the loop over variant_metadata_list from position i on; it stops at the
\* RuntimeError raised for a variant name the machine's dict already holds
RECURSIVE BuildVariantMap(_, _, _)
BuildVariantMap(variant_metadata_list, i, variant_map) ==
    IF i > Len(variant_metadata_list) THEN [map |-> variant_map, error |-> "none"]
    ELSE LET variant_metadata == variant_metadata_list[i]
             variant_name == variant_metadata.name
             variant_definition == variant_metadata.definition
             map1 == IF variant_definition \notin DOMAIN variant_map
                     THEN Put(variant_map, variant_definition, EmptyDict)
                     ELSE variant_map
             variant_dict == map1[variant_definition]
         IN  IF variant_metadata.id \in ExcludeVariantIdList
             THEN BuildVariantMap(variant_metadata_list, i + 1, variant_map)
             ELSE IF variant_name \in DOMAIN variant_dict
                  THEN [map |-> map1, error |-> "RuntimeError"]
                  ELSE BuildVariantMap(variant_metadata_list, i + 1,
                           Put(map1, variant_definition,
                               Put(variant_dict, variant_name,
                                   [metadata |-> variant_metadata,
                                    container |-> NoContainer])))

(* ------------------------- query arguments ---------------------------- *)

QueryMachines == {"fdmprinter", "ultimaker3", "custom_printer"}
QueryVariants == {NoneName, "AA 0.4"}
QueryDiameters == {175, 285}
QueryRootIds == {MaterialIdAt[1], MaterialIdAt[2]}
QueryGuids == Guids
QueryVariantMachines == {"ultimaker3", "custom_printer"}
QueryVariantNames == {"AA 0.4", "Glass"}

\* Round cutting the fraction off, as int(diameter) does
RoundTruncating(diameter) == diameter \div 100

\* round(diameter) of Python 3 on a diameter given in hundredths: to the
\* nearest integer, a tie to the even one
Round(diameter) ==
    LET q == diameter \div 100
        r == diameter % 100
    IN  IF r < 50 THEN q
        ELSE IF r > 50 THEN q + 1
        ELSE IF q % 2 = 0 THEN q ELSE q + 1

\* str(n) of a non-negative integer: its decimal digits
Digit == <<"0", "1", "2", "3", "4", "5", "6", "7", "8", "9">>
RECURSIVE Str(_)
Str(n) == IF n < 10 THEN Digit[n + 1] ELSE Str(n \div 10) \o Digit[(n % 10) + 1]

(* ------------------------------- state -------------------------------- *)

VARIABLES
    material_metadata_list,   \* what findContainersMetadata(type = "material") returned
    variant_metadata_list,    \* what findContainersMetadata(type = "variant") returned
    guid_to_root_materials_map,
    diameter_machine_variant_material_map,
    machine_to_variant_dict_map,
    material_manager,         \* "new", "ok" (initialize returned) or the exception it raised
    variant_manager,
    looked,                   \* the nodes findInstanceContainers was called for
    last,                     \* the last call and its outcome
    threads                   \* per thread, the lazy-loading call it is in

vars == <<material_metadata_list, variant_metadata_list, guid_to_root_materials_map,
          diameter_machine_variant_material_map, machine_to_variant_dict_map,
          material_manager, variant_manager, looked, last, threads>>

registry == <<material_metadata_list, variant_metadata_list>>
material_maps == <<guid_to_root_materials_map, diameter_machine_variant_material_map>>

NoCall ==
    [op |-> "none", machine |-> "", variant |-> "", diameter |-> 0, key |-> "",
     outcome |-> "none", container |-> NoContainer, materials |-> EmptyDict,
     metadata |-> NoMetadata, node |-> NoNode, calls |-> 0, found |-> 0]

\* the threads that call into the managers, and a thread in no call
Threads == {"t1", "t2"}
Idle == [pc |-> "idle", op |-> "none", node |-> NoNode, calls |-> 0, container_list |-> <<>>]

\* MaterialManager.__init__ and VariantManager.__init__
Init ==
    /\ material_metadata_list = <<>>
    /\ variant_metadata_list = <<>>
    /\ guid_to_root_materials_map = EmptyDict
    /\ diameter_machine_variant_material_map = EmptyDict
    /\ machine_to_variant_dict_map = EmptyDict
    /\ material_manager = "new"
    /\ variant_manager = "new"
    /\ looked = {}
    /\ last = NoCall
    /\ threads = [t \in Threads |-> Idle]

\* The two managers share no state: a behaviour builds one of them, the other
\* stays as constructed.
\* MaterialManager.initialize() on the list the registry returns
MaterialInitialize(lists) ==
    /\ material_manager = "new"
    /\ variant_manager = "new"
    /\ \E list \in lists :
        LET guid_map == BuildGuidMap(list, 1, guid_to_root_materials_map)
            built == BuildTree(list, 1, guid_map, diameter_machine_variant_material_map)
        IN  /\ material_metadata_list' = list
            /\ guid_to_root_materials_map' = guid_map
            /\ diameter_machine_variant_material_map' = built.tree
            /\ material_manager' = IF built.error = "none" THEN "ok" ELSE built.error
            /\ last' = [NoCall EXCEPT !.op = "MaterialManager.initialize",
                                      !.outcome = IF built.error = "none" THEN "return"
                                                  ELSE built.error]
    /\ UNCHANGED <<variant_metadata_list, machine_to_variant_dict_map, variant_manager,
                   looked, threads>>

\* VariantManager.initialize() on the list the registry returns
VariantInitialize ==
    /\ variant_manager = "new"
    /\ material_manager = "new"
    /\ \E list \in VariantLists :
        LET built == BuildVariantMap(list, 1, machine_to_variant_dict_map)
        IN  /\ variant_metadata_list' = list
            /\ machine_to_variant_dict_map' = built.map
            /\ variant_manager' = IF built.error = "none" THEN "ok" ELSE built.error
            /\ last' = [NoCall EXCEPT !.op = "VariantManager.initialize",
                                      !.outcome = IF built.error = "none" THEN "return"
                                                  ELSE built.error]
    /\ UNCHANGED <<material_metadata_list, material_maps, material_manager, looked,
                   threads>>

(* --------------------------- lazy loading ----------------------------- *)

\* A node is named by its place: <<"guid", GUID, "", "", "">> in the GUID table,
\* <<"material", diameter, machine, variant or NoneName, root material id>> for a
\* leaf of the tree, <<"variant", machine, name, "", "">> in the variant table.
MaterialNodeAt(path) ==
    IF path[1] = "guid" THEN guid_to_root_materials_map[path[2]]
    ELSE LET machine_node == diameter_machine_variant_material_map[path[2]][path[3]]
         IN  IF path[4] = NoneName THEN machine_node.material_map[path[5]]
             ELSE machine_node.children_map[path[4]].material_map[path[5]]

\* node.container = container for the material node at path
StoreContainer(path, container) ==
    IF path[1] = "guid"
    THEN /\ guid_to_root_materials_map' =
                [guid_to_root_materials_map EXCEPT ![path[2]].container = container]
         /\ UNCHANGED diameter_machine_variant_material_map
    ELSE /\ diameter_machine_variant_material_map' =
                IF path[4] = NoneName
                THEN [diameter_machine_variant_material_map EXCEPT
                        ![path[2]][path[3]].material_map[path[5]].container = container]
                ELSE [diameter_machine_variant_material_map EXCEPT
                        ![path[2]][path[3]].children_map[path[4]].material_map[path[5]].container
                            = container]
         /\ UNCHANGED guid_to_root_materials_map

\* the lists findInstanceContainers(id = container_id) may return: the
\* container with that id, or nothing when the registry does not hold it
FindInstanceContainers(container_id) == {<<>>, <<[container |-> container_id]>>}

\* _getContainerOnNode without the "container is None" test: every call asks
\* the registry
GetContainerOnNodeUncached(path, call) ==
    LET node == MaterialNodeAt(path)
    IN  \E container_list \in FindInstanceContainers(node.metadata.id) :
            /\ looked' = looked \cup {path}
            /\ IF container_list = <<>>
               THEN /\ last' = [call EXCEPT !.outcome = "RuntimeError",
                                            !.node = path, !.calls = 1]
                    /\ UNCHANGED material_maps
               ELSE /\ StoreContainer(path, container_list[1])
                    /\ last' = [call EXCEPT !.outcome = "return",
                                            !.container = container_list[1],
                                            !.node = path, !.calls = 1,
                                            !.found = Len(container_list)]

\* _getContainerOnNode returning None instead of raising when the registry
\* finds nothing
GetContainerOnNodeLenient(path, call) ==
    LET node == MaterialNodeAt(path)
    IN  IF node.container # NoContainer
        THEN /\ last' = [call EXCEPT !.outcome = "return", !.container = node.container,
                                     !.node = path]
             /\ UNCHANGED <<material_maps, looked>>
        ELSE \E container_list \in FindInstanceContainers(node.metadata.id) :
                  /\ looked' = looked \cup {path}
                  /\ IF container_list = <<>>
                     THEN /\ last' = [call EXCEPT !.outcome = "return",
                                                  !.node = path, !.calls = 1]
                          /\ UNCHANGED material_maps
                     ELSE /\ StoreContainer(path, container_list[1])
                          /\ last' = [call EXCEPT !.outcome = "return",
                                                  !.container = container_list[1],
                                                  !.node = path, !.calls = 1,
                                                  !.found = Len(container_list)]

\* _getContainerOnNode(node) for the node at path, ending the call `call`
GetContainerOnNode(path, call) ==
    LET node == MaterialNodeAt(path)
    IN  IF node.container # NoContainer
        THEN /\ last' = [call EXCEPT !.outcome = "return", !.container = node.container,
                                     !.node = path]
             /\ UNCHANGED <<material_maps, looked>>
        ELSE \E container_list \in FindInstanceContainers(node.metadata.id) :
                  /\ looked' = looked \cup {path}
                  /\ IF container_list = <<>>
                     THEN /\ last' = [call EXCEPT !.outcome = "RuntimeError",
                                                  !.node = path, !.calls = 1]
                          /\ UNCHANGED material_maps
                     ELSE /\ StoreContainer(path, container_list[1])
                          /\ last' = [call EXCEPT !.outcome = "return",
                                                  !.container = container_list[1],
                                                  !.node = path, !.calls = 1,
                                                  !.found = Len(container_list)]

(* ----------------------- MaterialManager queries ---------------------- *)

\* MachineKey without the fallback to the default machine
MachineKeyNoDefault(machine_variant_material_map, machine_definition_id) ==
    IF machine_definition_id \in DOMAIN machine_variant_material_map
    THEN machine_definition_id
    ELSE NoneName

\* the machine node getAvailableMaterials and getMaterial work with: the key
\* of machine_definition_id in the bucket, else of the default machine, else None
MachineKey(machine_variant_material_map, machine_definition_id) ==
    IF machine_definition_id \in DOMAIN machine_variant_material_map
    THEN machine_definition_id
    ELSE IF DefaultMachineDefinitionId \in DOMAIN machine_variant_material_map
         THEN DefaultMachineDefinitionId
         ELSE NoneName

\* {mid: node.metadata for mid, node in material_map.items()}
MetadataDict(material_map) == [mid \in DOMAIN material_map |-> material_map[mid].metadata]

\* getAvailableMaterials: the dict it returns
AvailableMaterials(tree, machine_definition_id, variant_name, diameter) ==
    LET rounded_diameter == Str(Round(diameter))
    IN  IF rounded_diameter \notin DOMAIN tree THEN EmptyDict
        ELSE LET machine_variant_material_map == tree[rounded_diameter]
                 machine_key == MachineKey(machine_variant_material_map, machine_definition_id)
                 has_variant_node ==
                    /\ variant_name # NoneName
                    /\ machine_key # NoneName
                    /\ variant_name \in DOMAIN machine_variant_material_map[machine_key].children_map
                 \* material_id_metadata_dict starts as {} and is a dict ever after:
                 \* the "is None" test of the machine-level fallback never passes
                 material_id_metadata_dict_is_none == FALSE
             IN  IF has_variant_node
                 THEN MetadataDict(machine_variant_material_map[machine_key]
                                        .children_map[variant_name].material_map)
                 ELSE IF material_id_metadata_dict_is_none /\ machine_key # NoneName
                      THEN MetadataDict(machine_variant_material_map[machine_key].material_map)
                      ELSE EmptyDict

\* MaterialNodePath with the two levels tried in the wrong order: the
\* machine-level leaf first
MaterialNodePathMachineFirst(tree, machine_definition_id, variant_name, diameter, root_material_id) ==
    LET rounded_diameter == Str(Round(diameter))
    IN  IF rounded_diameter \notin DOMAIN tree THEN NoNode
        ELSE LET machine_variant_material_map == tree[rounded_diameter]
                 machine_key == MachineKey(machine_variant_material_map, machine_definition_id)
             IN  IF machine_key = NoneName THEN NoNode
                 ELSE LET machine_node == machine_variant_material_map[machine_key]
                      IN  IF root_material_id \in DOMAIN machine_node.material_map
                          THEN <<"material", rounded_diameter, machine_key, NoneName,
                                 root_material_id>>
                          ELSE IF /\ variant_name # NoneName
                                  /\ variant_name \in DOMAIN machine_node.children_map
                                  /\ root_material_id \in
                                        DOMAIN machine_node.children_map[variant_name].material_map
                               THEN <<"material", rounded_diameter, machine_key, variant_name,
                                      root_material_id>>
                               ELSE NoNode

\* MaterialNodePath with the default machine as a last resort: consulted as
\* well when the machine node of machine_definition_id has no leaf
MaterialNodePathDefaultLast(tree, machine_definition_id, variant_name, diameter, root_material_id) ==
    LET rounded_diameter == Str(Round(diameter))
    IN  IF rounded_diameter \notin DOMAIN tree THEN NoNode
        ELSE LET machine_variant_material_map == tree[rounded_diameter]
                 machine_key == MachineKey(machine_variant_material_map, machine_definition_id)
                 Leaf(key) ==
                    IF key = NoneName THEN NoNode
                    ELSE LET machine_node == machine_variant_material_map[key]
                         IN  IF /\ variant_name # NoneName
                                /\ variant_name \in DOMAIN machine_node.children_map
                                /\ root_material_id \in
                                        DOMAIN machine_node.children_map[variant_name].material_map
                             THEN <<"material", rounded_diameter, key, variant_name,
                                    root_material_id>>
                             ELSE IF root_material_id \in DOMAIN machine_node.material_map
                                  THEN <<"material", rounded_diameter, key, NoneName,
                                         root_material_id>>
                                  ELSE NoNode
             IN  IF Leaf(machine_key) # NoNode THEN Leaf(machine_key)
                 ELSE Leaf(MachineKey(machine_variant_material_map,
                                      DefaultMachineDefinitionId))

\* getMaterial up to the node whose container it returns, NoNode for None.
\* _getContainerOnNode returns a container or raises, so the machine-level leaf
\* is reached only when the variant node has no leaf for root_material_id.
MaterialNodePath(tree, machine_definition_id, variant_name, diameter, root_material_id) ==
    LET rounded_diameter == Str(Round(diameter))
    IN  IF rounded_diameter \notin DOMAIN tree THEN NoNode
        ELSE LET machine_variant_material_map == tree[rounded_diameter]
                 machine_key == MachineKey(machine_variant_material_map, machine_definition_id)
             IN  IF machine_key = NoneName THEN NoNode
                 ELSE LET machine_node == machine_variant_material_map[machine_key]
                          has_variant_node ==
                             /\ variant_name # NoneName
                             /\ variant_name \in DOMAIN machine_node.children_map
                      IN  IF /\ has_variant_node
                             /\ root_material_id \in
                                    DOMAIN machine_node.children_map[variant_name].material_map
                          THEN <<"material", rounded_diameter, machine_key, variant_name,
                                 root_material_id>>
                          ELSE IF root_material_id \in DOMAIN machine_node.material_map
                               THEN <<"material", rounded_diameter, machine_key, NoneName,
                                      root_material_id>>
                               ELSE NoNode

\* a manager serves queries as constructed and once initialize() has returned,
\* not after initialize() raised; the manager the behaviour did not build is
\* left alone once the other one is built
Queryable(manager, other) == manager \in {"new", "ok"} /\ other = "new"

\* getAvailableMaterials creating the bucket it does not find, as a
\* setdefault() on the table would
GetAvailableMaterialsSetDefault(machine_definition_id, variant_name, diameter) ==
    /\ Queryable(material_manager, variant_manager)
    /\ last' = [NoCall EXCEPT !.op = "getAvailableMaterials",
                              !.machine = machine_definition_id,
                              !.variant = variant_name, !.diameter = diameter,
                              !.outcome = "return",
                              !.materials = AvailableMaterials(
                                    diameter_machine_variant_material_map,
                                    machine_definition_id, variant_name, diameter)]
    /\ diameter_machine_variant_material_map' =
            IF Str(Round(diameter)) \in DOMAIN diameter_machine_variant_material_map
            THEN diameter_machine_variant_material_map
            ELSE Put(diameter_machine_variant_material_map, Str(Round(diameter)), EmptyDict)
    /\ UNCHANGED <<registry, guid_to_root_materials_map, machine_to_variant_dict_map,
                   material_manager, variant_manager, looked, threads>>

\* getAvailableMaterials(machine_definition_id, variant_name, diameter)
GetAvailableMaterials(machine_definition_id, variant_name, diameter) ==
    /\ Queryable(material_manager, variant_manager)
    /\ last' = [NoCall EXCEPT !.op = "getAvailableMaterials",
                              !.machine = machine_definition_id,
                              !.variant = variant_name, !.diameter = diameter,
                              !.outcome = "return",
                              !.materials = AvailableMaterials(
                                    diameter_machine_variant_material_map,
                                    machine_definition_id, variant_name, diameter)]
    /\ UNCHANGED <<registry, material_maps, machine_to_variant_dict_map,
                   material_manager, variant_manager, looked, threads>>

\* getMaterial(machine_definition_id, variant_name, diameter, root_material_id)
GetMaterial(machine_definition_id, variant_name, diameter, root_material_id) ==
    /\ Queryable(material_manager, variant_manager)
    /\ LET call == [NoCall EXCEPT !.op = "getMaterial", !.machine = machine_definition_id,
                                  !.variant = variant_name, !.diameter = diameter,
                                  !.key = root_material_id]
           path == MaterialNodePath(diameter_machine_variant_material_map,
                        machine_definition_id, variant_name, diameter, root_material_id)
       IN  IF path = NoNode
           THEN /\ last' = [call EXCEPT !.outcome = "return"]
                /\ UNCHANGED <<material_maps, looked>>
           ELSE GetContainerOnNode(path, call)
    /\ UNCHANGED <<registry, machine_to_variant_dict_map, material_manager, variant_manager,
                   threads>>

\* getMaterialByGUID subscripting the GUID table instead of calling get()
GetMaterialByGUIDSubscript(guid) ==
    /\ Queryable(material_manager, variant_manager)
    /\ LET call == [NoCall EXCEPT !.op = "getMaterialByGUID", !.key = guid]
       IN  IF guid \in DOMAIN guid_to_root_materials_map
           THEN GetContainerOnNode(<<"guid", guid, "", "", "">>, call)
           ELSE /\ last' = [call EXCEPT !.outcome = "KeyError"]
                /\ UNCHANGED <<material_maps, looked>>
    /\ UNCHANGED <<registry, machine_to_variant_dict_map, material_manager, variant_manager,
                   threads>>

\* getMaterialByGUID(guid)
GetMaterialByGUID(guid) ==
    /\ Queryable(material_manager, variant_manager)
    /\ LET call == [NoCall EXCEPT !.op = "getMaterialByGUID", !.key = guid]
       IN  IF guid \in DOMAIN guid_to_root_materials_map
           THEN GetContainerOnNode(<<"guid", guid, "", "", "">>, call)
           ELSE /\ last' = [call EXCEPT !.outcome = "return"]
                /\ UNCHANGED <<material_maps, looked>>
    /\ UNCHANGED <<registry, machine_to_variant_dict_map, material_manager, variant_manager,
                   threads>>

(* ----------------------- VariantManager queries ----------------------- *)

\* getVariantMetadata(machine_type_name, variant_name): the subscript of the
\* table raises KeyError for a machine that is no key of it
GetVariantMetadata(machine_type_name, variant_name) ==
    /\ Queryable(variant_manager, material_manager)
    /\ LET call == [NoCall EXCEPT !.op = "getVariantMetadata", !.machine = machine_type_name,
                                  !.variant = variant_name]
       IN  last' = IF machine_type_name \notin DOMAIN machine_to_variant_dict_map
                   THEN [call EXCEPT !.outcome = "KeyError"]
                   ELSE IF variant_name \notin
                                DOMAIN machine_to_variant_dict_map[machine_type_name]
                        THEN [call EXCEPT !.outcome = "return"]
                        ELSE [call EXCEPT !.outcome = "return",
                                !.metadata = machine_to_variant_dict_map[machine_type_name]
                                                [variant_name].metadata,
                                !.node = <<"variant", machine_type_name, variant_name, "", "">>]
    /\ UNCHANGED <<registry, material_maps, machine_to_variant_dict_map,
                   material_manager, variant_manager, looked, threads>>

\* getVariant(machine_type_name, variant_name), with its own lazy loading
GetVariant(machine_type_name, variant_name) ==
    /\ Queryable(variant_manager, material_manager)
    /\ LET call == [NoCall EXCEPT !.op = "getVariant", !.machine = machine_type_name,
                                  !.variant = variant_name]
           path == <<"variant", machine_type_name, variant_name, "", "">>
       IN  IF machine_type_name \notin DOMAIN machine_to_variant_dict_map
           THEN /\ last' = [call EXCEPT !.outcome = "KeyError"]
                /\ UNCHANGED <<machine_to_variant_dict_map, looked>>
           ELSE IF variant_name \notin DOMAIN machine_to_variant_dict_map[machine_type_name]
           THEN /\ last' = [call EXCEPT !.outcome = "return"]
                /\ UNCHANGED <<machine_to_variant_dict_map, looked>>
           ELSE LET variant_dict == machine_to_variant_dict_map[machine_type_name][variant_name]
                IN  IF variant_dict.container # NoContainer
                    THEN /\ last' = [call EXCEPT !.outcome = "return",
                                        !.container = variant_dict.container, !.node = path]
                         /\ UNCHANGED <<machine_to_variant_dict_map, looked>>
                    ELSE \E variant_list \in FindInstanceContainers(variant_dict.metadata.id) :
                              /\ looked' = looked \cup {path}
                              /\ IF variant_list = <<>>
                                 THEN /\ last' = [call EXCEPT !.outcome = "RuntimeError",
                                                    !.node = path, !.calls = 1]
                                      /\ UNCHANGED machine_to_variant_dict_map
                                 ELSE /\ machine_to_variant_dict_map' =
                                            [machine_to_variant_dict_map EXCEPT
                                                ![machine_type_name][variant_name].container
                                                    = variant_list[1]]
                                      /\ last' = [call EXCEPT !.outcome = "return",
                                                    !.container = variant_list[1],
                                                    !.node = path, !.calls = 1,
                                                    !.found = Len(variant_list)]
    /\ UNCHANGED <<registry, material_maps, material_manager, variant_manager, threads>>

(* --------------------------- specification ---------------------------- *)

Next ==
    \/ MaterialInitialize(MaterialLists(MaxRecords))
    \/ VariantInitialize
    \/ \E m \in QueryMachines, v \in QueryVariants, d \in QueryDiameters :
            GetAvailableMaterials(m, v, d)
    \/ \E m \in QueryMachines, v \in QueryVariants, d \in QueryDiameters,
          r \in QueryRootIds : GetMaterial(m, v, d, r)
    \/ \E g \in QueryGuids : GetMaterialByGUID(g)
    \/ \E m \in QueryVariantMachines, n \in QueryVariantNames : GetVariantMetadata(m, n)
    \/ \E m \in QueryVariantMachines, n \in QueryVariantNames : GetVariant(m, n)

Spec == Init /\ [][Next]_vars

\* the build seen through initialize() and getAvailableMaterials() alone, on
\* longer lists
NextBuild ==
    \/ MaterialInitialize(MaterialLists(MaxBuildRecords))
    \/ \E m \in QueryMachines, v \in QueryVariants, d \in QueryDiameters :
            GetAvailableMaterials(m, v, d)

SpecBuild == Init /\ [][NextBuild]_vars

(* ------------------------- reading the state -------------------------- *)

\* the paths of the leaves of the tree
LeafPaths(tree) ==
    UNION {UNION {
        {<<"material", b, m, NoneName, r>> : r \in DOMAIN tree[b][m].material_map}
        \cup UNION {{<<"material", b, m, v, r>> :
                        r \in DOMAIN tree[b][m].children_map[v].material_map} :
                    v \in DOMAIN tree[b][m].children_map} :
        m \in DOMAIN tree[b]} : b \in DOMAIN tree}

IsBuilt == material_manager = "ok"
LazyOps == {"getMaterial", "getMaterialByGUID", "getVariant"}

\* every node that has a container slot
NodePaths ==
    LeafPaths(diameter_machine_variant_material_map)
    \cup {<<"guid", g, "", "", "">> : g \in DOMAIN guid_to_root_materials_map}
    \cup UNION {{<<"variant", m, n, "", "">> : n \in DOMAIN machine_to_variant_dict_map[m]} :
                m \in DOMAIN machine_to_variant_dict_map}

\* the container slot and the metadata of the node at path
Slot(path) ==
    IF path[1] = "variant" THEN machine_to_variant_dict_map[path[2]][path[3]].container
    ELSE MaterialNodeAt(path).container
MetadataAt(path) ==
    IF path[1] = "variant" THEN machine_to_variant_dict_map[path[2]][path[3]].metadata
    ELSE MaterialNodeAt(path).metadata

\* the bucket a getMaterial / getAvailableMaterials call reads, and in it
LastBucketKey == Str(Round(last.diameter))
HasBucket == LastBucketKey \in DOMAIN diameter_machine_variant_material_map
LastBucket == diameter_machine_variant_material_map[LastBucketKey]
IsRecord(i) == material_metadata_list[i].id # EmptyMaterialId
Records == {i \in 1..Len(material_metadata_list) : IsRecord(i)}

(* ------------------------ initialize() again -------------------------- *)

\* MaterialManager.initialize() on a manager whose initialize() has returned,
\* the registry returning the same list: both loops run over the tables as the
\* first call and the queries left them
MaterialInitializeAgain ==
    /\ material_manager = "ok"
    /\ variant_manager = "new"
    /\ LET guid_map == BuildGuidMap(material_metadata_list, 1, guid_to_root_materials_map)
           built == BuildTree(material_metadata_list, 1, guid_map,
                              diameter_machine_variant_material_map)
       IN  /\ guid_to_root_materials_map' = guid_map
           /\ diameter_machine_variant_material_map' = built.tree
           /\ material_manager' = IF built.error = "none" THEN "ok" ELSE built.error
           /\ last' = [NoCall EXCEPT !.op = "MaterialManager.initialize",
                                     !.outcome = IF built.error = "none" THEN "return"
                                                 ELSE built.error]
    /\ UNCHANGED <<registry, machine_to_variant_dict_map, variant_manager, looked, threads>>

\* VariantManager.initialize() on a manager whose initialize() has returned,
\* the registry returning the same list
VariantInitializeAgain ==
    /\ variant_manager = "ok"
    /\ material_manager = "new"
    /\ LET built == BuildVariantMap(variant_metadata_list, 1, machine_to_variant_dict_map)
       IN  /\ machine_to_variant_dict_map' = built.map
           /\ variant_manager' = IF built.error = "none" THEN "ok" ELSE built.error
           /\ last' = [NoCall EXCEPT !.op = "VariantManager.initialize",
                                     !.outcome = IF built.error = "none" THEN "return"
                                                 ELSE built.error]
    /\ UNCHANGED <<registry, material_maps, material_manager, looked, threads>>

NextAgain ==
    \/ MaterialInitialize(MaterialLists(MaxRecords))
    \/ VariantInitialize
    \/ \E m \in QueryMachines, v \in QueryVariants, d \in QueryDiameters,
          r \in QueryRootIds : GetMaterial(m, v, d, r)
    \/ \E g \in QueryGuids : GetMaterialByGUID(g)
    \/ \E m \in QueryVariantMachines, n \in QueryVariantNames : GetVariant(m, n)
    \/ MaterialInitializeAgain
    \/ VariantInitializeAgain

SpecAgain == Init /\ [][NextAgain]_vars

(* ------------------- materials of two diameters ----------------------- *)

\* the approximate_diameter values of 1.75 mm and 2.85 mm filament, and the
\* diameters asked for
BucketKeys == {"2", "3"}
DiameterQueries == {175, 284, 285}

\* the list s with the approximate_diameter of the record at i set to a[i]
WithDiameters(s, a) ==
    [i \in DOMAIN s |->
        IF s[i].id = EmptyMaterialId THEN s[i]
        ELSE [s[i] EXCEPT !.approximate_diameter = a[i]]]

\* the lists of at most MaxDiameterRecords records of either diameter
DiameterLists ==
    UNION {{WithDiameters(s, a) : a \in [DOMAIN s -> BucketKeys]} :
            s \in MaterialLists(MaxDiameterRecords)}

NextDiameter ==
    \/ MaterialInitialize(DiameterLists)
    \/ \E m \in QueryMachines, v \in QueryVariants, d \in DiameterQueries :
            GetAvailableMaterials(m, v, d)
    \/ \E m \in QueryMachines, v \in QueryVariants, d \in DiameterQueries,
          r \in QueryRootIds : GetMaterial(m, v, d, r)

SpecDiameter == Init /\ [][NextDiameter]_vars

(* ------------------- queries of concurrent threads -------------------- *)

\* Nothing in the two classes synchronises the callers. A call of a thread is
\* taken apart where another thread can run in between: up to the node it
\* resolved, the test "container is None", the call of the registry, the
\* assignment of the container slot, the return of the slot.

\* thread t goes on to call _getContainerOnNode on the node at path, or returns
\* None at once when the call resolved no node
EnterNode(t, op, path) ==
    /\ threads' = IF path = NoNode THEN threads
                  ELSE [threads EXCEPT ![t] = [Idle EXCEPT !.pc = "test", !.op = op,
                                                           !.node = path]]
    /\ UNCHANGED <<registry, material_maps, machine_to_variant_dict_map, material_manager,
                   variant_manager, looked, last>>

\* getMaterial up to the call of _getContainerOnNode
BeginGetMaterial(t, machine_definition_id, variant_name, diameter, root_material_id) ==
    /\ Queryable(material_manager, variant_manager)
    /\ threads[t].pc = "idle"
    /\ EnterNode(t, "getMaterial",
            MaterialNodePath(diameter_machine_variant_material_map, machine_definition_id,
                             variant_name, diameter, root_material_id))

\* getMaterialByGUID up to the call of _getContainerOnNode
BeginGetMaterialByGUID(t, guid) ==
    /\ Queryable(material_manager, variant_manager)
    /\ threads[t].pc = "idle"
    /\ EnterNode(t, "getMaterialByGUID",
            IF guid \in DOMAIN guid_to_root_materials_map
            THEN <<"guid", guid, "", "", "">> ELSE NoNode)

\* getVariant up to the test of variant_dict["container"]; the KeyError and the
\* return of None end the call at once
BeginGetVariant(t, machine_type_name, variant_name) ==
    /\ Queryable(variant_manager, material_manager)
    /\ threads[t].pc = "idle"
    /\ EnterNode(t, "getVariant",
            IF /\ machine_type_name \in DOMAIN machine_to_variant_dict_map
               /\ variant_name \in DOMAIN machine_to_variant_dict_map[machine_type_name]
            THEN <<"variant", machine_type_name, variant_name, "", "">> ELSE NoNode)

\* if node.container is None / if variant_dict["container"] is None
TestContainer(t) ==
    /\ threads[t].pc = "test"
    /\ threads' = [threads EXCEPT ![t].pc =
                        IF Slot(threads[t].node) = NoContainer THEN "find" ELSE "return"]
    /\ UNCHANGED <<registry, material_maps, machine_to_variant_dict_map, material_manager,
                   variant_manager, looked, last>>

\* container_list = findInstanceContainers(id = container_id), and the
\* RuntimeError that ends the call when the list is empty
FindContainer(t) ==
    /\ threads[t].pc = "find"
    /\ \E container_list \in FindInstanceContainers(MetadataAt(threads[t].node).id) :
            threads' = [threads EXCEPT ![t] =
                            IF container_list = <<>> THEN Idle
                            ELSE [@ EXCEPT !.pc = "store", !.calls = 1,
                                           !.container_list = container_list]]
    /\ looked' = looked \cup {threads[t].node}
    /\ UNCHANGED <<registry, material_maps, machine_to_variant_dict_map, material_manager,
                   variant_manager, last>>

\* node.container = container_list[0] / variant_dict["container"] = variant_list[0]
AssignContainer(t) ==
    /\ threads[t].pc = "store"
    /\ LET path == threads[t].node
       IN  IF path[1] = "variant"
           THEN /\ machine_to_variant_dict_map' =
                        [machine_to_variant_dict_map EXCEPT
                            ![path[2]][path[3]].container = threads[t].container_list[1]]
                /\ UNCHANGED material_maps
           ELSE /\ StoreContainer(path, threads[t].container_list[1])
                /\ UNCHANGED machine_to_variant_dict_map
    /\ threads' = [threads EXCEPT ![t].pc = "return"]
    /\ UNCHANGED <<registry, material_manager, variant_manager, looked, last>>

\* return node.container / return variant_dict["container"]
ReturnContainer(t) ==
    /\ threads[t].pc = "return"
    /\ threads' = [threads EXCEPT ![t] = Idle]
    /\ UNCHANGED <<registry, material_maps, machine_to_variant_dict_map, material_manager,
                   variant_manager, looked, last>>

NextConcurrent ==
    \/ MaterialInitialize(MaterialLists(MaxConcurrentRecords))
    \/ VariantInitialize
    \/ \E t \in Threads, m \in QueryMachines, v \in QueryVariants, d \in QueryDiameters,
          r \in QueryRootIds : BeginGetMaterial(t, m, v, d, r)
    \/ \E t \in Threads, g \in QueryGuids : BeginGetMaterialByGUID(t, g)
    \/ \E t \in Threads, m \in QueryVariantMachines, n \in QueryVariantNames :
            BeginGetVariant(t, m, n)
    \/ \E t \in Threads : TestContainer(t)
    \/ \E t \in Threads : FindContainer(t)
    \/ \E t \in Threads : AssignContainer(t)
    \/ \E t \in Threads : ReturnContainer(t)

SpecConcurrent == Init /\ [][NextConcurrent]_vars

(* ------------------------------- C1 ----------------------------------- *)

\* what C1 says getAvailableMaterials returns: the variant node's map when the
\* variant node is found and its map is not empty, else the map of the machine
\* node (of machineId, else of the default machine), else the empty map
ClaimedAvailableMaterials(tree, machineId, variantName, diameter) ==
    LET bucket_key == Str(Round(diameter))
    IN  IF bucket_key \notin DOMAIN tree THEN EmptyDict
        ELSE LET bucket == tree[bucket_key]
                 machine_key == MachineKey(bucket, machineId)
             IN  IF machine_key = NoneName THEN EmptyDict
                 ELSE LET machine_node == bucket[machine_key]
                      IN  IF /\ variantName # NoneName
                             /\ variantName \in DOMAIN machine_node.children_map
                             /\ DOMAIN machine_node.children_map[variantName].material_map # {}
                          THEN MetadataDict(machine_node.children_map[variantName].material_map)
                          ELSE MetadataDict(machine_node.material_map)

\* C1: on every built index getAvailableMaterials returns the whole map of one
\* level: the variant node's when found and not empty, otherwise the machine
\* node's (the default machine's when machineId is absent), otherwise empty.
C1_AvailableMaterialsOneLevel ==
    (IsBuilt /\ last.op = "getAvailableMaterials") =>
        /\ DOMAIN last.materials =
            DOMAIN ClaimedAvailableMaterials(diameter_machine_variant_material_map,
                        last.machine, last.variant, last.diameter)
        /\ \A r \in DOMAIN last.materials :
            last.materials[r] =
                ClaimedAvailableMaterials(diameter_machine_variant_material_map,
                        last.machine, last.variant, last.diameter)[r]

(* ------------------------------- C4 ----------------------------------- *)

\* the leaves of the tree whose metadata is the record at position i
LeavesOf(i) ==
    {p \in LeafPaths(diameter_machine_variant_material_map) :
        MaterialNodeAt(p).metadata = material_metadata_list[i]}

\* the key path of the record at position i in a built index
KeyPath(i) ==
    <<"material", material_metadata_list[i].approximate_diameter,
      material_metadata_list[i].definition, GetVariantName(material_metadata_list[i]),
      guid_to_root_materials_map[material_metadata_list[i].GUID].metadata.id>>

\* C4: after initialize() returned without error every record other than the
\* empty material is the metadata of exactly one leaf, and no two records have
\* the same key path (no leaf was overwritten: such records make initialize() fail).
C4_NoLeafOverwritten ==
    IsBuilt =>
        /\ \A i \in Records : Cardinality(LeavesOf(i)) = 1
        /\ \A i, j \in Records : i # j => KeyPath(i) # KeyPath(j)

(* ------------------------------- C5 ----------------------------------- *)

HasVariantName(i) ==
    /\ "variant_name" \in DOMAIN material_metadata_list[i]
    /\ material_metadata_list[i].variant_name # ""

\* the record at position k carries a GUID with no root material
Unrooted(k) ==
    k \in Records /\ material_metadata_list[k].GUID \notin DOMAIN guid_to_root_materials_map

\* records i < j with a variant name in one diameter bucket under the same
\* (machine id, variant name, root-material-id)
DuplicateVariantPair(i, j) ==
    /\ i \in Records /\ j \in Records /\ i < j
    /\ HasVariantName(i) /\ HasVariantName(j)
    /\ ~Unrooted(i) /\ ~Unrooted(j)
    /\ LET a == material_metadata_list[i]
           b == material_metadata_list[j]
       IN  /\ a.approximate_diameter = b.approximate_diameter
           /\ a.definition = b.definition
           /\ a.variant_name = b.variant_name
           /\ guid_to_root_materials_map[a.GUID].metadata.id
                = guid_to_root_materials_map[b.GUID].metadata.id

HasDuplicateVariantPair == \E i, j \in Records : DuplicateVariantPair(i, j)

\* the position at which pass 2 meets the first duplicate
FirstDuplicate ==
    CHOOSE j \in Records :
        /\ \E i \in Records : DuplicateVariantPair(i, j)
        /\ \A k \in Records : (\E i \in Records : DuplicateVariantPair(i, k)) => j <= k

\* C5 as stated: initialize() raises the duplicate-entry error whenever the
\* list holds two records with a variant name in one bucket under the same
\* (machine id, variant name, root-material-id).
C5_DuplicateAlwaysBuildConflict ==
    (material_manager # "new" /\ HasDuplicateVariantPair) =>
        material_manager = "RuntimeError"

\* C5 as amended: with such a pair in the list initialize() does not complete;
\* it raises the duplicate-entry error at the second record of the first pair,
\* unless an earlier record's GUID has no root material, whose KeyError comes first.
C5_DuplicateFailsBuild ==
    (material_manager # "new" /\ HasDuplicateVariantPair) =>
        material_manager =
            IF \E k \in Records : k < FirstDuplicate /\ Unrooted(k)
            THEN "KeyError" ELSE "RuntimeError"

C5_Witness ==
    /\ HasDuplicateVariantPair
    /\ material_manager = "RuntimeError"
    /\ last.op = "MaterialManager.initialize"

(* ------------------------------- C2 ----------------------------------- *)

\* the machine node the last call resolved: machineId's, else the default one's
ResolvedMachine ==
    IF last.machine \in DOMAIN LastBucket THEN last.machine ELSE DefaultMachineDefinitionId
HasResolvedMachine == HasBucket /\ ResolvedMachine \in DOMAIN LastBucket
HasVariantLeaf ==
    /\ HasResolvedMachine
    /\ last.variant # NoneName
    /\ last.variant \in DOMAIN LastBucket[ResolvedMachine].children_map
    /\ last.key \in DOMAIN LastBucket[ResolvedMachine].children_map[last.variant].material_map
HasMachineLeaf ==
    /\ HasResolvedMachine
    /\ last.key \in DOMAIN LastBucket[ResolvedMachine].material_map
VariantLeafPath == <<"material", LastBucketKey, ResolvedMachine, last.variant, last.key>>
MachineLeafPath == <<"material", LastBucketKey, ResolvedMachine, NoneName, last.key>>

\* C2: with a variant-specific leaf and a machine-level leaf for the same
\* rootMaterialId, getMaterial resolves and returns the variant-specific leaf's
\* container, never the machine-level one; the machine-level leaf is hit only
\* when there is no variant leaf for rootMaterialId.
C2_VariantLeafFirst ==
    (IsBuilt /\ last.op = "getMaterial") =>
        /\ (HasVariantLeaf /\ HasMachineLeaf) =>
                /\ last.node = VariantLeafPath
                /\ last.outcome = "return" =>
                        /\ last.container = [container |-> MetadataAt(VariantLeafPath).id]
                        /\ last.container = Slot(VariantLeafPath)
                        /\ last.container # [container |-> MetadataAt(MachineLeafPath).id]
        /\ (last.node[1] = "material" /\ last.node[4] = NoneName) => ~HasVariantLeaf

C2_Witness ==
    /\ IsBuilt /\ last.op = "getMaterial"
    /\ HasVariantLeaf /\ HasMachineLeaf
    /\ last.outcome = "return"
    /\ last.container # NoContainer

(* ------------------------------- C3 ----------------------------------- *)

DefaultLeafPath ==
    <<"material", LastBucketKey, DefaultMachineDefinitionId, NoneName, last.key>>

\* C3: when the bucket has no machine node for machineId, getMaterial(machineId,
\* None, d, rid) resolves the default machine's leaf for rid and returns its
\* container when the bucket has the default machine and that leaf, and returns
\* absent when the default machine is absent too.
C3_DefaultMachineFallback ==
    (/\ IsBuilt /\ last.op = "getMaterial" /\ last.variant = NoneName
     /\ HasBucket /\ last.machine \notin DOMAIN LastBucket) =>
        IF DefaultMachineDefinitionId \in DOMAIN LastBucket
        THEN last.key \in DOMAIN LastBucket[DefaultMachineDefinitionId].material_map =>
                /\ last.node = DefaultLeafPath
                /\ last.outcome \in {"return", "RuntimeError"}
                /\ last.outcome = "return" =>
                        /\ last.container = [container |-> MetadataAt(DefaultLeafPath).id]
                        /\ last.container = Slot(DefaultLeafPath)
        ELSE /\ last.outcome = "return"
             /\ last.container = NoContainer
             /\ last.node = NoNode

C3_Witness ==
    /\ IsBuilt /\ last.op = "getMaterial" /\ last.variant = NoneName
    /\ HasBucket /\ last.machine \notin DOMAIN LastBucket
    /\ DefaultMachineDefinitionId \in DOMAIN LastBucket
    /\ last.node = DefaultLeafPath
    /\ last.outcome = "return"
    /\ last.container # NoContainer

(* ------------------------------- C6 ----------------------------------- *)

\* C6 as stated: over the calls after initialize(), findInstanceContainers is
\* invoked at most once per node: a call that invokes it does so for a node it
\* was never invoked for before.
C6_OneLookupPerNode ==
    [][(last'.op \in LazyOps /\ last'.calls = 1) => last'.node \notin looked]_vars

\* C6 as amended: findInstanceContainers is invoked only for a node whose
\* container slot is unset, so at most once with a result; a call that hits a
\* node whose slot is set invokes nothing and returns the cached handle; a slot,
\* once set, is never cleared or replaced by a query.
C6_CachedContainerReused ==
    [][last'.op \in LazyOps =>
        /\ last'.calls = 1 => Slot(last'.node) = NoContainer
        /\ \A n \in NodePaths :
            Slot(n) # NoContainer =>
                /\ Slot(n)' = Slot(n)
                /\ last'.node = n =>
                    /\ last'.calls = 0
                    /\ last'.outcome = "return"
                    /\ last'.container = Slot(n)]_vars

\* a call served from a slot an earlier call filled
C6_Witness ==
    /\ last.op = "getMaterial"
    /\ last.node \in looked
    /\ last.calls = 0
    /\ last.outcome = "return"
    /\ last.container # NoContainer
    /\ last.container = Slot(last.node)

(* ------------------------------- C7 ----------------------------------- *)

\* C7: getVariantMetadata and getVariant return None, without raising, when
\* machineId has no entry in the index and when machineId has one but
\* variantName is not in it.
C7_VariantLookupAbsent ==
    (/\ last.op \in {"getVariantMetadata", "getVariant"}
     /\ \/ last.machine \notin DOMAIN machine_to_variant_dict_map
        \/ last.variant \notin DOMAIN machine_to_variant_dict_map[last.machine]) =>
        /\ last.outcome = "return"
        /\ last.metadata = NoMetadata
        /\ last.container = NoContainer

(* ------------------------------- C8 ----------------------------------- *)

\* C8: a query that asks the registry for the container of a node and gets
\* nothing raises after that one call, returns no handle and leaves the node's
\* container slot unset; a query raises for no other reason than this.
C8_DesyncRaisesOnce ==
    /\ (last.op \in {"getMaterial", "getMaterialByGUID"}
            /\ last.calls = 1 /\ last.found = 0) =>
            /\ last.outcome = "RuntimeError"
            /\ last.container = NoContainer
            /\ Slot(last.node) = NoContainer
    /\ (last.op = "getVariant" /\ last.calls = 1 /\ last.found = 0) =>
            /\ last.outcome = "RuntimeError"
            /\ last.container = NoContainer
            /\ Slot(last.node) = NoContainer
    /\ (last.op \in LazyOps /\ last.outcome = "RuntimeError") =>
            last.calls = 1 /\ last.found = 0

C8_Witness ==
    /\ last.op = "getMaterial"
    /\ last.calls = 1 /\ last.found = 0
    /\ last.outcome = "RuntimeError"
    /\ Slot(last.node) = NoContainer

(* ------------------------------- C9 ----------------------------------- *)

\* the resolved machine node has no variant node for the variant asked for
VariantMissing ==
    /\ HasResolvedMachine
    /\ last.variant # NoneName
    /\ last.variant \notin DOMAIN LastBucket[ResolvedMachine].children_map

\* the call returned None / {} and asked the registry nothing
ReturnedAbsent ==
    /\ last.outcome = "return"
    /\ last.container = NoContainer
    /\ DOMAIN last.materials = {}
    /\ last.calls = 0

\* the parts of C9 that do not depend on how a missing variant is treated by
\* getMaterial
C9_Common ==
    /\ last.op \in {"getMaterial", "getAvailableMaterials", "getMaterialByGUID"} =>
            last.outcome \in {"return", "RuntimeError"}
    /\ last.op = "getAvailableMaterials" =>
            /\ last.outcome = "return"
            /\ (~HasBucket \/ ~HasResolvedMachine \/ VariantMissing) => ReturnedAbsent
    /\ (last.op = "getMaterialByGUID" /\ last.key \notin DOMAIN guid_to_root_materials_map) =>
            ReturnedAbsent
    /\ (last.op = "getMaterial"
            /\ (~HasBucket \/ ~HasResolvedMachine \/ (~HasVariantLeaf /\ ~HasMachineLeaf))) =>
            ReturnedAbsent

C10_RoundTrip ==
    (IsBuilt /\ last.op = "getMaterial" /\ last.outcome = "return"
        /\ last.container # NoContainer) =>
        /\ last.node \in LeafPaths(diameter_machine_variant_material_map)
        /\ last.container = [container |-> MetadataAt(last.node).id]
        /\ \E i \in Records : material_metadata_list[i] = MetadataAt(last.node)
        /\ guid_to_root_materials_map[MetadataAt(last.node).GUID].metadata.id = last.key

\* a handle returned for a record that is not its own root material
C10_Witness ==
    /\ IsBuilt /\ last.op = "getMaterial" /\ last.outcome = "return"
    /\ last.container # NoContainer
    /\ MetadataAt(last.node).id # last.key

(* ------------------------------- C11 ---------------------------------- *)

VariantRecords ==
    {i \in 1..Len(variant_metadata_list) :
        variant_metadata_list[i].id \notin ExcludeVariantIdList}

\* two non-excluded variant records with the same (machine definition id, name)
DuplicateVariant(i, j) ==
    /\ i \in VariantRecords /\ j \in VariantRecords /\ i < j
    /\ variant_metadata_list[i].definition = variant_metadata_list[j].definition
    /\ variant_metadata_list[i].name = variant_metadata_list[j].name

C11_Retrieved ==
    /\ variant_manager = "ok"
    /\ last.op = "getVariantMetadata"
    /\ \E i \in VariantRecords : last.metadata = variant_metadata_list[i]

(* ------------------------------- C12 ---------------------------------- *)

QueryOps ==
    {"getMaterial", "getAvailableMaterials", "getMaterialByGUID", "getVariantMetadata",
     "getVariant"}

\* a material_map with the container slots of its leaves blanked
LeavesBlank(material_map) ==
    [r \in DOMAIN material_map |-> [material_map[r] EXCEPT !.container = NoContainer]]

\* the tree with the container slot of every leaf blanked: the diameter
\* buckets, the machine nodes, the variant nodes, the leaf keys and every
\* node's metadata
TreeShape ==
    [b \in DOMAIN diameter_machine_variant_material_map |->
        [m \in DOMAIN diameter_machine_variant_material_map[b] |->
            LET machine_node == diameter_machine_variant_material_map[b][m]
            IN  [machine_node EXCEPT
                    !.material_map = LeavesBlank(@),
                    !.children_map =
                        [v \in DOMAIN @ |-> [@[v] EXCEPT !.material_map = LeavesBlank(@)]]]]]

\* the GUID entries and the variant entries with their container slots blanked
GuidShape == LeavesBlank(guid_to_root_materials_map)
VariantShape ==
    [m \in DOMAIN machine_to_variant_dict_map |->
        LeavesBlank(machine_to_variant_dict_map[m])]

\* C12: a query leaves the buckets, machine nodes, variant nodes, leaf keys,
\* GUID entries, variant entries and every node's metadata as they were; the
\* only container slot it may change is that of the node it hit;
\* getAvailableMaterials and getVariantMetadata change nothing.
C12_QueriesKeepIndex ==
    [][last'.op \in QueryOps =>
        /\ UNCHANGED diameter_machine_variant_material_map \/ TreeShape' = TreeShape
        /\ UNCHANGED guid_to_root_materials_map \/ GuidShape' = GuidShape
        /\ UNCHANGED machine_to_variant_dict_map \/ VariantShape' = VariantShape
        /\ \/ UNCHANGED <<material_maps, machine_to_variant_dict_map>>
           \/ \A n \in NodePaths : n # last'.node => Slot(n)' = Slot(n)
        /\ last'.op \in {"getAvailableMaterials", "getVariantMetadata"} =>
                UNCHANGED <<material_maps, machine_to_variant_dict_map>>
        /\ UNCHANGED <<registry, material_manager, variant_manager>>]_vars

\* a query has filled the slot of the node it hit and another node's slot is
\* still unset
C12_Witness ==
    /\ IsBuilt
    /\ last.op = "getMaterial" /\ last.calls = 1
    /\ Slot(last.node) # NoContainer
    /\ \E n \in NodePaths : n # last.node /\ Slot(n) = NoContainer

(* ------------------------------- C13 ---------------------------------- *)

\* thread t is in a call for which it has asked the registry and got a container
HasLookedUp(t) == threads[t].pc \in {"store", "return"} /\ threads[t].calls = 1

\* C13: of two calls in flight on the same node at most one has performed the
\* registry lookup findInstanceContainers for it, and the slot a call is about
\* to return holds the container of the node's record.
C13_AtMostOnceConcurrent ==
    /\ \A t, u \in Threads :
            (t # u /\ threads[t].node = threads[u].node) =>
                ~(HasLookedUp(t) /\ HasLookedUp(u))
    /\ \A t \in Threads :
            threads[t].pc = "return" =>
                Slot(threads[t].node) = [container |-> MetadataAt(threads[t].node).id]

(* ------------------------------- C14 ---------------------------------- *)

IsRoot(i) ==
    i \in Records /\ material_metadata_list[i].id = material_metadata_list[i].base_file
RootsOf(guid) == {i \in Records : IsRoot(i) /\ material_metadata_list[i].GUID = guid}
RootedGuids == {material_metadata_list[i].GUID : i \in {j \in Records : IsRoot(j)}}

\* the first root record in list order that carries the GUID
FirstRoot(guid) == CHOOSE i \in RootsOf(guid) : \A j \in RootsOf(guid) : i <= j

\* C15: after initialize() the GUID table maps every GUID that has a root
\* record to the first such record in list order; a later root record with the
\* same GUID raises no error of its own (initialize fails only for a GUID
\* without a root or for a duplicate variant leaf); getMaterialByGUID(guid)
\* returns the container of that first root record; every record of a built
\* index is keyed in the tree under that first root record's id.
C15_FirstRootWins ==
    material_manager # "new" =>
        /\ DOMAIN guid_to_root_materials_map = RootedGuids
        /\ \A g \in RootedGuids :
                guid_to_root_materials_map[g].metadata = material_metadata_list[FirstRoot(g)]
        /\ (~HasDuplicateVariantPair /\ \A k \in Records : ~Unrooted(k)) => IsBuilt
        /\ (last.op = "getMaterialByGUID" /\ last.key \in RootedGuids
                /\ last.outcome = "return") =>
                /\ last.node = <<"guid", last.key, "", "", "">>
                /\ last.container =
                        [container |-> material_metadata_list[FirstRoot(last.key)].id]
        /\ IsBuilt =>
                /\ \A i \in Records :
                        /\ KeyPath(i) \in LeafPaths(diameter_machine_variant_material_map)
                        /\ KeyPath(i)[5] =
                            material_metadata_list[FirstRoot(material_metadata_list[i].GUID)].id
                /\ \A p \in LeafPaths(diameter_machine_variant_material_map) :
                        p[5] = material_metadata_list[FirstRoot(MetadataAt(p).GUID)].id

\* getMaterialByGUID served from the first of two root records with one GUID
C15_Witness ==
    /\ IsBuilt
    /\ last.op = "getMaterialByGUID" /\ last.outcome = "return"
    /\ last.container # NoContainer
    /\ Cardinality(RootsOf(last.key)) = 2
    /\ last.container = [container |-> material_metadata_list[FirstRoot(last.key)].id]

(* ------------------------------- C16 ---------------------------------- *)

\* the first record in list order whose GUID has no root record
FirstUnrooted == CHOOSE k \in Records : Unrooted(k) /\ \A j \in Records : Unrooted(j) => k <= j

\* C16: when a record other than the empty material carries a GUID no root
\* record was registered for, initialize() does not complete: an error reaches
\* the caller (the missing-root error, unless the duplicate-entry error of an
\* earlier record came first), and neither that record nor any record after it
\* is inserted under any key.
C16_UnrootedFailsFast ==
    (material_manager # "new" /\ \E k \in Records : Unrooted(k)) =>
        /\ material_manager \in {"KeyError", "RuntimeError"}
        /\ last.op = "MaterialManager.initialize" /\ last.outcome = material_manager
        /\ (~\E i, j \in Records : DuplicateVariantPair(i, j) /\ j < FirstUnrooted) =>
                material_manager = "KeyError"
        /\ \A j \in Records : j >= FirstUnrooted => LeavesOf(j) = {}

\* pass 2 stopped at a record after one it had inserted
C16_Witness ==
    /\ material_manager = "KeyError"
    /\ \E k \in Records : Unrooted(k)
    /\ \E i \in Records : i < FirstUnrooted /\ LeavesOf(i) # {}

(* ------------------------------- C17 ---------------------------------- *)

\* the bucket C17 gives for a diameter: "3" for 2.84 and 2.85, "2" for 1.75
ClaimedBucket(diameter) ==
    CASE diameter = 284 -> "3"
      [] diameter = 285 -> "3"
      [] diameter = 175 -> "2"

\* C17: getMaterial and getAvailableMaterials read the bucket of the diameter
\* rounded to the nearest integer ("3" for 2.84 and 2.85, "2" for 1.75): a node
\* they hit and the metadata they return are of that bucket, without that bucket
\* they return absent / the empty map, and a call that differs from the call
\* before it only in a diameter of the same bucket returns the same result.
C17_BucketByRoundedDiameter ==
    [][(IsBuilt' /\ last'.op \in {"getMaterial", "getAvailableMaterials"}) =>
        /\ ClaimedBucket(last'.diameter) \notin DOMAIN diameter_machine_variant_material_map' =>
                ReturnedAbsent' /\ last'.node = NoNode
        /\ last'.node # NoNode => last'.node[2] = ClaimedBucket(last'.diameter)
        /\ \A r \in DOMAIN last'.materials :
                last'.materials[r].approximate_diameter = ClaimedBucket(last'.diameter)
        /\ (/\ last.op = last'.op /\ last.machine = last'.machine
            /\ last.variant = last'.variant /\ last.key = last'.key
            /\ ClaimedBucket(last.diameter) = ClaimedBucket(last'.diameter)) =>
                /\ last'.materials = last.materials
                /\ last'.node = last.node
                /\ (last.outcome = "return" /\ last'.outcome = "return") =>
                        last'.container = last.container]_vars

\* 2.84 served from the "3" bucket
C17_Witness ==
    /\ IsBuilt /\ last.op = "getMaterial" /\ last.diameter = 284
    /\ last.outcome = "return" /\ last.container # NoContainer
    /\ last.node[2] = "3"

\* 1.75 served from the "2" bucket
C17_Bucket2 ==
    /\ IsBuilt /\ last.op = "getMaterial" /\ last.diameter = 175
    /\ last.outcome = "return" /\ last.container # NoContainer
    /\ last.node[2] = "2"

(* ------------------------------- C18 ---------------------------------- *)

\* C18: a second initialize() on a manager whose first one returned raises the
\* duplicate-entry error when the list holds a non-excluded variant
\* (VariantManager) or a variant-specific material (MaterialManager), and
\* leaves the entries of the first call and every cached container in place.
C18_SecondInitializeKeeps ==
    [][/\ (material_manager = "ok" /\ last'.op = "MaterialManager.initialize") =>
            /\ (\E i \in Records : HasVariantName(i)) => material_manager' = "RuntimeError"
            /\ TreeShape' = TreeShape
            /\ GuidShape' = GuidShape
            /\ \A n \in NodePaths : Slot(n)' = Slot(n)
       /\ (variant_manager = "ok" /\ last'.op = "VariantManager.initialize") =>
            /\ VariantRecords # {} => variant_manager' = "RuntimeError"
            /\ UNCHANGED machine_to_variant_dict_map]_vars

====
